---- MODULE Spec2Model ----
(***************************************************************************)
(* Model of pyts/io/aerodyn.py: write(fname, tsdat) and read(fname), the   *)
(* AeroDyn/TurbSim ".bts" full-field binary codec.                         *)
(*                                                                         *)
(* Numbers.  Every real quantity (a float32 of the program) is held as an  *)
(* integer count of Unit-ths, Unit = 2^9: the integer v stands for the     *)
(* real v / 512.  A float32 has a 24-bit significand, so an integer count  *)
(* below 2^24 is a float32 exactly and a larger one is rounded to 24       *)
(* significant bits, ties to even (F32R).  The inputs of Init are chosen   *)
(* so that every intermediate result of the program is such a count (see   *)
(* LatticeExact): on them the operators below compute bit for bit what     *)
(* float32 arithmetic computes.                                            *)
(*                                                                         *)
(* Arrays.  A numpy array is [shape |-> <<3, a, b, t>>, data |-> f] with f *)
(* a function on 0-based index tuples <<c, i, j, t>>.  By the comments of  *)
(* write (lines 69-73) axis 1 of tsdat.utotal is z and axis 2 is y.        *)
(*                                                                         *)
(* Files.  A file is [nh, hdr, body]: nh is the number of header bytes it  *)
(* holds (70 after a full pack), hdr the packed fields, body the bytes     *)
(* after the header, each 0..255.  int16 samples are little-endian.        *)
(***************************************************************************)
EXTENDS Integers, Sequences, FiniteSets, TLC

VARIABLES tsdat, pc, file, w_fl, r_fl, u_scl, u_off, out, desc_str, ret

vars == <<tsdat, pc, file, w_fl, r_fl, u_scl, u_off, out, desc_str, ret>>

(* ------------------------------ bounds ------------------------------- *)
\* grid sizes n_z, n_y, n_t range over 1..MaxN
MaxN == 2
\* the time stamp substituted into desc_str has 0..MaxSubLen bytes
MaxSubLen == 1
\* a written file is shortened by 1..MaxCut bytes
MaxCut == 30

(* ------------------------- program constants ------------------------- *)
intmin == -32768
intrng == 65536
FormatTag == 7
ReadHeaderBytes == 70

\* the real 1.0 in lattice units
Unit == 2^9
\* below this count every integer is a float32 (24-bit significand)
Mant == 2^24
\* the range of numpy.int16
Int16Min == -(2^15)
Int16Max == 2^15 - 1

Abs(x) == IF x < 0 THEN -x ELSE x
Sgn(x) == IF x < 0 THEN -1 ELSE 1
MinOf(S) == CHOOSE x \in S : \A y \in S : x <= y
MaxOf(S) == CHOOSE x \in S : \A y \in S : y <= x

(* ------------------------- float32 arithmetic ------------------------ *)
\* round the non-negative rational a + (a fraction in (0,1) iff sticky) to a
\* float32: 24 significant bits, round half to even
F32R(a, sticky) ==
  IF a < Mant THEN a
  ELSE LET k    == CHOOSE j \in 1..7 : a < Mant * 2^j /\ a >= Mant * 2^(j-1)
           step == 2^k
           q    == a \div step
           r    == a % step
           half == step \div 2
           up   == r > half \/ (r = half /\ (sticky \/ q % 2 = 1))
       IN  (IF up THEN q + 1 ELSE q) * step

\* a value already known exactly, rounded to float32
F32(v) == Sgn(v) * F32R(Abs(v), FALSE)

\* float32 product x * y
F32Mul(x, y) ==
  LET ax == Abs(x)
      yh == Abs(y) \div Unit
      yl == Abs(y) % Unit
      lo == ax * yl
  IN  Sgn(x) * Sgn(y) * F32R(ax * yh + lo \div Unit, lo % Unit # 0)

\* float32 quotient x / y
F32Div(x, y) ==
  LET ax == Abs(x)
      ay == Abs(y)
      lo == (ax % ay) * Unit
  IN  Sgn(x) * Sgn(y) * F32R((ax \div ay) * Unit + lo \div ay, lo % ay # 0)

(* ----------------------------- numpy --------------------------------- *)
Idx(shape) ==
  (0..(shape[1]-1)) \X (0..(shape[2]-1)) \X (0..(shape[3]-1)) \X (0..(shape[4]-1))

\* a[:, ::-1]
ReverseAxis1(a) ==
  [shape |-> a.shape,
   data  |-> [x \in Idx(a.shape) |->
                a.data[<<x[1], a.shape[2] - 1 - x[2], x[3], x[4]>>]]]

\* np.rollaxis(a, 2, 1)
RollAxis21(a) ==
  LET s == <<a.shape[1], a.shape[3], a.shape[2], a.shape[4]>>
  IN  [shape |-> s,
       data  |-> [x \in Idx(s) |-> a.data[<<x[1], x[3], x[2], x[4]>>]]]

\* the index tuple of element number p (0-based) in Fortran order
FIndex(shape, p) ==
  <<p % shape[1],
    (p \div shape[1]) % shape[2],
    (p \div (shape[1] * shape[2])) % shape[3],
    p \div (shape[1] * shape[2] * shape[3])>>

Size(shape) == shape[1] * shape[2] * shape[3] * shape[4]

\* the two bytes of an int16, low byte first
Int16Bytes(q) ==
  LET u == (q + 2^16) % 2^16 IN <<u % 2^8, u \div 2^8>>

\* a.tostring(order='F') of an int16 array
ToStringF(a) ==
  [b \in 1..(2 * Size(a.shape)) |->
     Int16Bytes(a.data[FIndex(a.shape, (b - 1) \div 2)])[1 + ((b - 1) % 2)]]

\* np.fromstring(s, dtype=np.int16) of an even number of bytes
FromString(s) ==
  [k \in 1..(Len(s) \div 2) |->
     LET u == s[2*k - 1] + 2^8 * s[2*k]
     IN  IF u > Int16Max THEN u - 2^16 ELSE u]

\* codes.reshape(shape, order='F')
ReshapeF(codes, shape) ==
  [shape |-> shape,
   data  |-> [x \in Idx(shape) |->
                codes[1 + x[1] + shape[1] * (x[2] + shape[2] * (x[3] + shape[3] * x[4]))]]]

\* float array .astype(np.int16): truncation toward zero; a value outside
\* int16 is undefined in the C cast, cast names the outcome of the build
CastOutcomes == {"wrap", "saturate"}

AsInt16(v, cast) ==
  LET t == Sgn(v) * (Abs(v) \div Unit)
  IN  IF t >= Int16Min /\ t <= Int16Max THEN t
      ELSE IF cast = "wrap" THEN ((t - Int16Min) % 2^16) + Int16Min
      ELSE IF t < Int16Min THEN Int16Min ELSE Int16Max

(* ------------------------------ inputs ------------------------------- *)
\* the velocity fields of the model: component c is either constant or a
\* ramp over the grid that spans RampSpan (256.0); its lowest value is
\* base + c (in reals: base/512 + c).  With base = 1 the values need the
\* lowest bit of the lattice, with base = 0 they do not.
Kinds == {"const", "ramp"}
Bases == {0, 1}
RampSpan == 2^17

Utotal(shape, kinds, base) ==
  [shape |-> shape,
   data  |-> [x \in Idx(shape) |->
     LET n == shape[2] * shape[3] * shape[4]
         l == x[2] + shape[2] * (x[3] + shape[3] * x[4])
     IN  base + x[1] * Unit
         + (IF kinds[x[1] + 1] = "const" THEN 0
            ELSE IF n > 1 /\ l = n - 1 THEN RampSpan
            ELSE l * (3 + 2 * x[1]))]]

\* a tsdata object: utotal is [component, z, y, t]; grid and time step fixed
TsData(n_z, n_y, n_t, kinds, base) ==
  [shape  |-> <<3, n_z, n_y, n_t>>,
   utotal |-> Utotal(<<3, n_z, n_y, n_t>>, kinds, base),
   grid   |-> [n_z |-> n_z, n_y |-> n_y, n_tower |-> 0,
               dz |-> 10 * Unit, dy |-> 10 * Unit,
               zhub |-> 90 * Unit, z0 |-> 80 * Unit],
   dt     |-> Unit \div 2,
   UHUB   |-> 12 * Unit]

\* __prog_name__ and __version__ of pyts._version (imported at line 10,
\* defined outside this file): "pyTs" and "0" stand for them
ProgName == <<112, 121, 84, 115>>
Version == <<48>>

\* byte strings of at most n bytes: what time.strftime returns for the
\* time of the call
Strings(n) == UNION {[1..k -> {120}] : k \in 0..n}

(* ------------------------------ write -------------------------------- *)
\* the samples of component c
Comp(a, c) == {a.data[x] : x \in {y \in Idx(a.shape) : y[1] = c}}

\* u_minmax[ind] = ts[ind].min(), ts[ind].max()
Minmax(a, c) == <<MinOf(Comp(a, c)), MaxOf(Comp(a, c))>>

\* u_scl[ind]: 1 for a constant component, else intrng / np.diff(u_minmax[ind])
Scl(a, c) ==
  LET mm == Minmax(a, c)
  IN  IF mm[1] = mm[2] THEN Unit
      ELSE F32Div(intrng * Unit, F32(mm[2] - mm[1]))

\* u_off[ind] = intmin - u_scl[ind] * u_minmax[ind, 0]
Off(a, c) == F32(intmin * Unit - F32Mul(Scl(a, c), Minmax(a, c)[1]))

\* out[ind] = (ts[ind] * u_scl[ind] + u_off[ind]).astype(np.int16)
Quantize(x, scl, off, cast) == AsInt16(F32(F32Mul(x, scl) + off), cast)

Quantized(a, scl, off, cast) ==
  [shape |-> a.shape,
   data  |-> [x \in Idx(a.shape) |->
                Quantize(a.data[x], scl[x[1]], off[x[1]], cast)]]

\* 'generated by %s v%s, %s.' % (prog, version, time stamp)
DescStr(prog, ver, stamp) ==
  <<103, 101, 110, 101, 114, 97, 116, 101, 100, 32, 98, 121, 32>> \o prog
    \o <<32, 118>> \o ver \o <<44, 32>> \o stamp \o <<46>>

\* struct size of 'h4l12fl' in standard sizes: h, 4 l, 12 f, l
HeaderSize == 2 + 4 * 4 + 12 * 4 + 4

\* pack(e + 'h4l12fl', 7, n_z, n_y, n_tower, n_t, dz, dy, dt, UHUB, zhub, z[0],
\*      u_scl[0], u_off[0], ..., len(desc_str))
PackHeader(d, scl, off, desc) ==
  [tag |-> FormatTag,
   n_z |-> d.grid.n_z, n_y |-> d.grid.n_y, n_tower |-> d.grid.n_tower,
   n_t |-> d.shape[4],
   dz |-> F32(d.grid.dz), dy |-> F32(d.grid.dy), dt |-> F32(d.dt),
   uhub |-> F32(d.UHUB), zhub |-> F32(d.grid.zhub), z0 |-> F32(d.grid.z0),
   u_scl |-> scl, u_off |-> off,
   strlen |-> Len(desc)]

\* write without the reversal of the z axis
WriteBlockNoFlip(o) == ToStringF(RollAxis21(o))

\* np.rollaxis(out[:, ::-1], 2, 1).tostring(order='F')
WriteBlock(o) == ToStringF(RollAxis21(ReverseAxis1(o)))

NoHeader == [tag |-> 0]
EmptyFile == [nh |-> 0, hdr |-> NoHeader, body |-> <<>>]

\* the three fl.write calls of write, in order
WriteStages == <<"header", "desc", "data">>

\* the file after the first n fl.write calls
FileAfter(n, h, desc, block) ==
  [nh   |-> IF n >= 1 THEN HeaderSize ELSE 0,
   hdr  |-> IF n >= 1 THEN h ELSE NoHeader,
   body |-> (IF n >= 2 THEN desc ELSE <<>>) \o (IF n >= 3 THEN block ELSE <<>>)]

\* write(fname, tsdat) with the first `done` fl.write calls succeeding
WriteCall(cast, desc, done) ==
  LET scl == [c \in 0..2 |-> Scl(tsdat.utotal, c)]
      off == [c \in 0..2 |-> Off(tsdat.utotal, c)]
      o   == Quantized(tsdat.utotal, scl, off, cast)
  IN  /\ u_scl' = scl
      /\ u_off' = off
      /\ out' = o
      /\ desc_str' = desc
      /\ file' = FileAfter(done, PackHeader(tsdat, scl, off, desc), desc, WriteBlock(o))
      /\ UNCHANGED <<tsdat, r_fl, ret>>

\* write returns: every fl.write succeeded, then fl.close()
Write ==
  /\ pc = "start"
  /\ \E cast \in CastOutcomes, stamp \in Strings(MaxSubLen) :
       WriteCall(cast, DescStr(ProgName, Version, stamp), Len(WriteStages))
  /\ w_fl' = "closed"
  /\ pc' = "written"

\* an fl.write raises (I/O failure): the exception leaves write, and the
\* fl.close() of line 75 is not reached
WriteRaises ==
  /\ pc = "start"
  /\ \E cast \in CastOutcomes, stamp \in Strings(MaxSubLen),
        done \in 0..(Len(WriteStages) - 1) :
       WriteCall(cast, DescStr(ProgName, Version, stamp), done)
  /\ w_fl' = "open"
  /\ pc' = "write_raised"

(* ------------------------ the file between calls --------------------- *)
FileLen(f) == f.nh + Len(f.body)

\* the file loses its last k bytes
Truncate ==
  /\ pc = "written"
  /\ \E k \in 1..MaxCut :
       /\ k <= FileLen(file)
       /\ file' = IF k <= Len(file.body)
                  THEN [file EXCEPT !.body = SubSeq(file.body, 1, Len(file.body) - k)]
                  ELSE [nh |-> file.nh - (k - Len(file.body)), hdr |-> NoHeader,
                        body |-> <<>>]
  /\ pc' = "tampered"
  /\ UNCHANGED <<tsdat, w_fl, r_fl, u_scl, u_off, out, desc_str, ret>>

\* a file of another format version: the same layout under another tag
\* (TurbSim's periodic files carry 8)
OtherTag ==
  /\ pc = "written"
  /\ file' = [file EXCEPT !.hdr.tag = 8]
  /\ pc' = "tampered"
  /\ UNCHANGED <<tsdat, w_fl, r_fl, u_scl, u_off, out, desc_str, ret>>

(* ------------------------------- read -------------------------------- *)
\* read reshaping straight to [3, n_z, n_y, n_t], without the axis swap
ReadArrangeSwapped(codes, n_y, n_z, n_t) ==
  ReverseAxis1(ReshapeF(codes, <<3, n_z, n_y, n_t>>))

\* read without np.rollaxis: the reshaped axes are returned as they are
ReadArrangeNoRoll(codes, n_y, n_z, n_t) ==
  ReverseAxis1(ReshapeF(codes, <<3, n_y, n_z, n_t>>))

\* np.rollaxis(codes.reshape([3, n_y, n_z, n_t], order='F'), 2, 1)[:, ::-1]
ReadArrange(codes, n_y, n_z, n_t) ==
  ReverseAxis1(RollAxis21(ReshapeF(codes, <<3, n_y, n_z, n_t>>)))

\* out -= u_off[:, None, None, None]; out /= u_scl[:, None, None, None]
Dequantize(q, scl, off) == F32Div(F32(q * Unit - off), scl)

Dequantized(a, scl, off) ==
  [shape |-> a.shape,
   data  |-> [x \in Idx(a.shape) |-> Dequantize(a.data[x], scl[x[1]], off[x[1]])]]

\* the file offset of the sample bytes read takes: the header has been read,
\* and the read of the descriptor (line 119) is commented out
ReadDataStart(h) == ReadHeaderBytes

NoRet == [kind |-> "none"]

\* read(fname): the outcome of the call on file f
ReadCall(f) ==
  IF f.nh < ReadHeaderBytes \/ ReadHeaderBytes # HeaderSize
  THEN [kind |-> "raise", err |-> "struct.error"]
  ELSE LET h     == f.hdr
           nbt   == 3 * h.n_y * h.n_z * h.n_t
           from  == ReadDataStart(h) - ReadHeaderBytes
           last  == IF from + 2 * nbt <= Len(f.body) THEN from + 2 * nbt
                    ELSE Len(f.body)
           bytes == SubSeq(f.body, from + 1, last)
       IN  IF Len(bytes) % 2 # 0
           THEN [kind |-> "raise", err |-> "ValueError (fromstring)"]
           ELSE IF Len(bytes) \div 2 # nbt
           THEN [kind |-> "raise", err |-> "ValueError (reshape)"]
           ELSE [kind  |-> "return",
                 start |-> ReadDataStart(h),
                 codes |-> FromString(bytes),
                 value |-> Dequantized(ReadArrange(FromString(bytes), h.n_y, h.n_z, h.n_t),
                                       h.u_scl, h.u_off)]

\* read opens the file and runs; no path of read closes fl
Read ==
  /\ pc \in {"written", "tampered"}
  /\ r_fl' = "open"
  /\ ret' = ReadCall(file)
  /\ pc' = IF ReadCall(file).kind = "return" THEN "read_returned" ELSE "read_raised"
  /\ UNCHANGED <<tsdat, file, w_fl, u_scl, u_off, out, desc_str>>

(* --------------------------- specification --------------------------- *)
Init ==
  /\ \E n_z \in 1..MaxN, n_y \in 1..MaxN, n_t \in 1..MaxN,
        kinds \in [1..3 -> Kinds], base \in Bases :
       tsdat = TsData(n_z, n_y, n_t, kinds, base)
  /\ pc = "start"
  /\ file = EmptyFile
  /\ w_fl = "none"
  /\ r_fl = "none"
  /\ u_scl = [c \in 0..2 |-> 0]
  /\ u_off = [c \in 0..2 |-> 0]
  /\ out = [shape |-> <<3, 0, 0, 0>>, data |-> <<>>]
  /\ desc_str = <<>>
  /\ ret = NoRet

Next == Write \/ WriteRaises \/ Truncate \/ OtherTag \/ Read

Spec == Init /\ [][Next]_vars

(* ------------------------- model sanity ------------------------------ *)
\* no product or quotient of a run has a fraction below the lattice: F32Mul
\* and F32Div are then exactly the float32 operations
MulExact(x, y) ==
  LET lo == Abs(x) * (Abs(y) % Unit)
  IN  lo % Unit = 0 \/ Abs(x) * (Abs(y) \div Unit) + lo \div Unit >= Mant

DivExact(x, y) ==
  LET lo == (Abs(x) % Abs(y)) * Unit
  IN  lo % Abs(y) = 0 \/ (Abs(x) \div Abs(y)) * Unit + lo \div Abs(y) >= Mant

LatticeExact ==
  /\ pc # "start" =>
       \A c \in 0..2 :
         LET mm == Minmax(tsdat.utotal, c)
         IN  /\ mm[1] # mm[2] => DivExact(intrng * Unit, F32(mm[2] - mm[1]))
             /\ MulExact(u_scl[c], mm[1])
             /\ \A x \in Comp(tsdat.utotal, c) : MulExact(x, u_scl[c])
  /\ pc = "read_returned" =>
       \A k \in 1..Len(ret.codes) :
         LET c == (k - 1) % 3
         IN  DivExact(F32(ret.codes[k] * Unit - file.hdr.u_off[c]), file.hdr.u_scl[c])

(* ------------------------------ claims ------------------------------- *)
\* the number of samples the header announces
Nbt(h) == 3 * h.n_y * h.n_z * h.n_t

\* the sample block of the format: the bytes after header and descriptor
DataBlock(f) == SubSeq(f.body, f.hdr.strlen + 1, Len(f.body))

\* the on-disk sample number of (component c, y-index iy, z-index iz, step t)
DiskPos(c, iy, iz, t, n_y, n_z) == c + 3 * (iy + n_y * ((n_z - 1 - iz) + n_z * t))

\* the file is as write left it
Intact ==
  /\ file.nh = HeaderSize
  /\ file.hdr.tag = FormatTag
  /\ Len(file.body) = file.hdr.strlen + 2 * Nbt(file.hdr)

ReadEnded == pc \in {"read_returned", "read_raised"}

\* C1: a tensor read back from the file write produced differs from the
\* original, sample by sample, by at most (max - min)/65536 of its component,
\* and equals it when the component is constant.
C1_RoundTrip ==
  (pc = "read_returned" /\ Intact) =>
    /\ ret.value.shape = tsdat.shape
    /\ \A x \in Idx(tsdat.shape) :
         LET mm == Minmax(tsdat.utotal, x[1])
         IN  Abs(ret.value.data[x] - tsdat.utotal.data[x]) <= (mm[2] - mm[1]) \div intrng

\* C2: read takes its 2*3*n_y*n_z*n_t sample bytes from byte offset
\* 70 + descriptor_length of the file, where write put them.
C2_DataBlockPosition ==
  (pc = "read_returned" /\ Intact) =>
    /\ ret.start = HeaderSize + file.hdr.strlen
    /\ ret.codes = FromString(DataBlock(file))

\* C3: in the sample block write emits, the code of component c, y-index iy,
\* z-index iz and time step t is sample number
\* c + 3*(iy + n_y*((n_z-1-iz) + n_z*t)), for every grid size.
C3_DiskAxisOrder ==
  pc = "written" =>
    LET block == DataBlock(file)
        codes == FromString(block)
    IN  /\ Len(block) = 2 * 3 * tsdat.grid.n_y * tsdat.grid.n_z * tsdat.shape[4]
        /\ \A c \in 0..2, iz \in 0..(tsdat.grid.n_z - 1),
              iy \in 0..(tsdat.grid.n_y - 1), t \in 0..(tsdat.shape[4] - 1) :
             codes[1 + DiskPos(c, iy, iz, t, tsdat.grid.n_y, tsdat.grid.n_z)]
               = out.data[<<c, iz, iy, t>>]

C3_Witness ==
  /\ pc = "written"
  /\ tsdat.grid.n_y # tsdat.grid.n_z
  /\ tsdat.shape[4] > 1
  /\ \A c \in 0..2 : Cardinality({out.data[x] : x \in {y \in Idx(out.shape) : y[1] = c}}) > 2

\* C4: for a component with min < max, write stores a sample equal to the
\* minimum as code -32768 and a sample equal to the maximum as code 32767
\* (a value past the range is clamped, not wrapped).
C4_BoundaryCodes ==
  pc = "written" =>
    \A x \in Idx(tsdat.shape) :
      LET mm == Minmax(tsdat.utotal, x[1])
      IN  mm[1] < mm[2] =>
            /\ tsdat.utotal.data[x] = mm[1] => out.data[x] = Int16Min
            /\ tsdat.utotal.data[x] = mm[2] => out.data[x] = Int16Max

\* C5: read's reshape, axis swap and z-reversal invert write's axis swap,
\* z-reversal and column-major serialization: arranging the codes of the block
\* write emitted gives back the quantized tensor, index for index, and
\* serializing the arrangement of the codes read gives back the bytes read.
C5_AxisRoundTrip ==
  /\ pc = "written" =>
       ReadArrange(FromString(DataBlock(file)),
                   file.hdr.n_y, file.hdr.n_z, file.hdr.n_t) = out
  /\ pc = "read_returned" =>
       FromString(WriteBlock(ReadArrange(ret.codes, file.hdr.n_y, file.hdr.n_z,
                                         file.hdr.n_t))) = ret.codes

C5_Witness ==
  /\ pc = "read_returned"
  /\ file.hdr.n_y # file.hdr.n_z
  /\ file.hdr.n_t > 1
  /\ Cardinality({ret.codes[k] : k \in 1..Len(ret.codes)}) > 6
  /\ Cardinality({out.data[x] : x \in Idx(out.shape)}) > 6

\* C6 (as amended): the tensor read returns is indexed [component, z-index,
\* y-index, time-index]: its dimensions are 3 x n_z x n_y x n_t of the header,
\* and its element (c, iz, iy, t) is the dequantized sample number
\* c + 3*(iy + n_y*((n_z-1-iz) + n_z*t)) of the samples read.
C6_DecodedIndexOrder ==
  pc = "read_returned" =>
    LET h == file.hdr
    IN  /\ ret.value.shape = <<3, h.n_z, h.n_y, h.n_t>>
        /\ \A c \in 0..2, iz \in 0..(h.n_z - 1), iy \in 0..(h.n_y - 1),
              t \in 0..(h.n_t - 1) :
             ret.value.data[<<c, iz, iy, t>>]
               = Dequantize(ret.codes[1 + DiskPos(c, iy, iz, t, h.n_y, h.n_z)],
                            h.u_scl[c], h.u_off[c])

C6_Witness ==
  /\ pc = "read_returned"
  /\ file.hdr.n_y # file.hdr.n_z
  /\ ret.value.shape = <<3, file.hdr.n_z, file.hdr.n_y, file.hdr.n_t>>

\* C6 as claimed: the returned tensor's dimensions are 3 x n_y x n_z x n_t.
C6_DecodedShapeYZ ==
  pc = "read_returned" =>
    ret.value.shape = <<3, file.hdr.n_y, file.hdr.n_z, file.hdr.n_t>>

\* C7: for a constant component write uses scale 1 and offset -32768 - min,
\* stores every sample as the same code, and read's (q - offset)/scale
\* returns exactly the constant.
C7_DegenerateComponent ==
  pc = "written" =>
    \A x \in Idx(tsdat.shape) :
      LET c  == x[1]
          mm == Minmax(tsdat.utotal, c)
      IN  mm[1] = mm[2] =>
            /\ u_scl[c] = Unit
            /\ u_off[c] = intmin * Unit - mm[1]
            /\ \A y \in Idx(tsdat.shape) : y[1] = c => out.data[y] = out.data[x]
            /\ Dequantize(out.data[x], u_scl[c], u_off[c]) = tsdat.utotal.data[x]

\* C8: read of a file with a full header whose sample block holds fewer than
\* 3*n_y*n_z*n_t samples raises and returns no tensor.
C8_TruncatedRaises ==
  (ReadEnded /\ file.nh = HeaderSize /\ Len(DataBlock(file)) < 2 * Nbt(file.hdr))
    => pc = "read_raised"

\* C9: read raises, and returns no tensor, when the file holds fewer than 70
\* header bytes or its format tag is not the 7 that write stores.
C9_MalformedHeaderRaises ==
  (ReadEnded /\ (file.nh < HeaderSize \/ file.hdr.tag # FormatTag))
    => pc = "read_raised"

\* C10: when write or read has ended, by return or by an exception, the file
\* handle the call opened is closed.
C10_HandleClosed ==
  /\ pc # "start" => w_fl = "closed"
  /\ ReadEnded => r_fl = "closed"

====
